---- MODULE Spec2Model ----
(***************************************************************************)
(* A model of the AV1 transcoding pipeline (src/pipeline): the durable     *)
(* state store, the stage workers, the prefetch worker and the             *)
(* orchestrator loop, with the operator's control files, process crashes   *)
(* and restarts as the environment.                                        *)
(*                                                                         *)
(* A source path is a number of Files.  The path fields of a FileRecord    *)
(* (local_path, output_path, dest_path, final_path, backup_path) are       *)
(* functions of the source path and are always written by the transition   *)
(* that precedes the status that reads them, so a record is modelled by    *)
(* its status and each path by the content of the file it names.           *)
(*                                                                         *)
(* Each thread is a program counter (pc).  One step holds at most one      *)
(* access to shared state (the store, the state file, the staging          *)
(* directory, the NAS, the control files); set_file is two steps, the      *)
(* update of the in-memory record and the save.                            *)
(***************************************************************************)
EXTENDS Integers, Sequences, FiniteSets, TLC

\* ------------------------------------------------------------------ bounds

NumFiles == 2
MaxSize == 2
MaxOps == 1
MaxRuns == 2
MaxErrors == 2
MaxFaults == 1
MaxPatterns == 2

Files == 1..NumFiles

\* runner.py:448: overrides are re-applied every fifth processed item
ReapplyEvery == 5

\* ------------------------------------------------------------------ state

VARIABLES
    report,           \* media report: per file its size, codec, container, resolution, bitrate
    cfg,              \* effective configuration (budgets, replace, overwrite)
    gentle,           \* control/gentle.json
    skip,             \* control/skip.json paths
    priority,         \* control/priority.json paths
    pause,            \* effective pause type: "none", "all", "fetch_only", "encode_only"
    pauseDir,         \* the pause files of the control and staging directories
    opsLeft,          \* operator edits of the control directory still allowed
    faultsLeft,       \* failures of copies, subprocesses and renames still allowed
    data,             \* PipelineState.data: files (path -> status), errors
    lock,             \* owner of PipelineState._lock
    stateFile,        \* pipeline_state.json
    tmpFile,          \* pipeline_state.json.tmp
    local,            \* <staging>/fetch/<hash>_<name>
    remux,            \* <local>.remux.mkv
    encoded,          \* <staging>/encoded/<hash>_<stem>.mkv
    nas,              \* per file the NAS paths S (source), B (backup), D (.av1.mkv), F (final)
    pc,               \* program counter of "orch" and "pre"
    ret,              \* where a thread continues after the save of a set_file
    cur,              \* the orchestrator's ready_item
    queue,            \* the orchestrator's queue
    site,             \* which inline stage_fetch call of process_item is running
    processed,        \* run()'s processed counter
    last_progress_at, \* run()'s last_progress_at
    pqueue,           \* the list object handed to the prefetch thread
    pidx,             \* the prefetch worker's position in pqueue
    shutdown,         \* Pipeline._shutdown
    runsLeft,         \* process starts still allowed
    hist              \* history, read by the properties only

inputVars == <<report, cfg, gentle>>
ctlVars == <<skip, priority, pause, pauseDir, opsLeft>>
envVars == <<skip, priority, pause, pauseDir, opsLeft, faultsLeft>>
storeVars == <<data, lock, stateFile, tmpFile>>
fsVars == <<local, remux, encoded, nas>>
orchVars == <<cur, queue, site, processed, last_progress_at>>
preVars == <<pqueue, pidx>>
procVars == <<shutdown, runsLeft>>

vars == <<report, cfg, gentle, skip, priority, pause, pauseDir, opsLeft, faultsLeft, data, lock, stateFile, tmpFile,
          local, remux, encoded, nas, pc, ret, cur, queue, site, processed,
          last_progress_at, pqueue, pidx, shutdown, runsLeft, hist>>

Threads == {"orch", "pre"}

\* a copy, a subprocess or a rename fails, or does not
Fault == faultsLeft > 0 /\ faultsLeft' = faultsLeft - 1

NoFault == UNCHANGED faultsLeft

\* state.py:12-24, and "none" for a path the store does not track
Statuses == {"none", "pending", "fetching", "fetched", "encoding", "encoded",
             "uploading", "uploaded", "verified", "replacing", "replaced",
             "skipped", "error"}

\* runner.py:470-471
TerminalStatuses == {"verified", "replaced", "skipped", "error"}

\* runner.py:477-480
ReadyStatuses == {"fetched", "encoding", "encoded", "uploading", "uploaded", "replacing"}

\* runner.py:285-286
ZombieStatuses == {"fetching", "encoding", "uploading"}

\* config.py:69, by the two containers the model tells apart: "mkv" is not
\* remuxed and its final path is its source path; "mp4" is remuxed and its
\* final path <stem>.mkv is another path than its source
NeedsRemux(f) == report[f].container = "mp4"

\* stages.py:239-241: the slot of nas[f] that final_path names
FinalSlot(f) == IF report[f].container = "mkv" THEN "S" ELSE "F"

\* state.py:33-46
\* the counters of completed files, bytes saved and encode time (in
\* hundredths of a second): data.stats is the global block of state.py:37-44,
\* data.tier the block of the one resolution class the report's files are in
NoStats == [completed |-> 0, bytes_saved |-> 0, encode_secs |-> 0]

FreshData ==
    [files |-> [f \in Files |-> "none"], errors |-> 0, stats |-> NoStats, tier |-> NoStats]

Min(a, b) == IF a < b THEN a ELSE b

\* what a staged file weighs: a file being written counts with its full size
Bytes(content, size) == IF content = "absent" THEN 0 ELSE size

EncodedSize(f) == 1

\* encoding.py:223: what the encoder takes for the file f, in hundredths of a
\* second
Elapsed(f) == 10 + 3 * (f - 1)

\* encoding.py:272: round(elapsed, 1), on hundredths of a second
RoundTenths(e) == ((e + 5) \div 10) * 10

FetchBytesOf(f) == Bytes(local[f], report[f].size) + Bytes(remux[f], report[f].size)

RECURSIVE SumFetch(_)
SumFetch(S) ==
    IF S = {} THEN 0
    ELSE LET x == CHOOSE y \in S : TRUE IN FetchBytesOf(x) + SumFetch(S \ {x})

RECURSIVE SumEncoded(_)
SumEncoded(S) ==
    IF S = {} THEN 0
    ELSE LET x == CHOOSE y \in S : TRUE
         IN Bytes(encoded[x], EncodedSize(x)) + SumEncoded(S \ {x})

\* stages.py:58-64
FetchUsage == SumFetch(Files)

\* stages.py:16-26
GetStagingUsage == FetchUsage + SumEncoded(Files)

\* stages.py:29-31
GetFreeSpace == cfg.disk_bytes - GetStagingUsage

Alive == pc["pre"] \notin {"off", "p_done"}

TheItem(t) == IF t = "orch" THEN cur ELSE pqueue[pidx]

Goto(t, l) == pc' = [pc EXCEPT ![t] = l]

\* ---------------------------------------------------------------- control

\* control.py:150-158
ShouldSkip(f) == f \in skip

ValueOfFile(file) == CHOOSE c \in file : TRUE

\* control.py:24-28: the aliases of pause.json in the order of the dictionary,
\* each named by the type it implies
PauseAliases == <<"all", "fetch_only", "encode_only">>

\* what a pause file holds: the `type` it names, "empty" for an empty file or
\* a document without `type`, "malformed" for what json.load rejects
PauseContents == {"empty", "all", "fetch_only", "encode_only", "malformed"}

\* no pause file: pause.json absent (the empty set), no alias, no PAUSE
NoPauseFiles ==
    [canonical |-> {}, alias |-> [a \in {"all", "fetch_only", "encode_only"} |-> {}],
     simple |-> FALSE]

\* the directory after the alias file of the type p was dropped, empty
Dropped(p) ==
    IF p = "none" THEN NoPauseFiles ELSE [NoPauseFiles EXCEPT !.alias[p] = {"empty"}]

\* control.py:60-78: the content of the file found for pause.json and the
\* implicit type that comes with it (the empty set: none); the canonical
\* name is looked up before any alias
RECURSIVE FirstAlias(_, _)
FirstAlias(dir, i) ==
    IF i > Len(PauseAliases) THEN {}
    ELSE IF dir.alias[PauseAliases[i]] # {}
         THEN {[content |-> ValueOfFile(dir.alias[PauseAliases[i]]),
                implicit |-> {PauseAliases[i]}]}
    ELSE FirstAlias(dir, i + 1)

FindControlFile(dir) ==
    IF dir.canonical # {}
    THEN {[content |-> ValueOfFile(dir.canonical), implicit |-> {}]}
    ELSE FirstAlias(dir, 1)

\* control.py:80-124: the type of the merged document of the file found,
\* "all" when it names none; None ("none") when there is no file, or an
\* unreadable one that implies nothing; PAUSE in the staging directory
\* comes first
GetPauseType(dir) ==
    IF dir.simple THEN "all"
    ELSE LET found == FindControlFile(dir) IN
         IF found = {} THEN "none"
         ELSE LET file == CHOOSE x \in found : TRUE IN
              IF file.implicit # {} THEN CHOOSE t \in file.implicit : TRUE
              ELSE IF file.content = "malformed" THEN "none"
              ELSE IF file.content = "empty" THEN "all"
              ELSE file.content

InSeq(f, q) == \E i \in 1..Len(q) : q[i] = f

\* a path as an operator writes it into priority.json: p in Files is the
\* spelling of the report, p + NumFiles another spelling of the same path
\* (another case, a redundant separator)
Spellings == 1..(2 * NumFiles)

\* os.path.normpath(p).lower(), as the report path that has this normal form
NormPath(p) == ((p - 1) % NumFiles) + 1

\* state.py:64-67 on a path as written: the record is kept under the spelling
\* of the report, and any other spelling has none
GetFile(p) == IF p \in Files THEN data.files[p] ELSE "none"

\* control.py:216-221
BumpSet == {NormPath(priority[i]) : i \in 1..Len(priority)}

\* control.py:210-230
ApplyQueueOverrides(q) ==
    LET filtered == SelectSeq(q, LAMBDA f : ~ShouldSkip(f))
        bumped == SelectSeq(filtered, LAMBDA f : f \in BumpSet)
        rest == SelectSeq(filtered, LAMBDA f : f \notin BumpSet)
    IN bumped \o rest

\* runner.py:231-270: queue_paths is computed once, before the loop over the
\* list, and every item is built from the entry of the report
InjectNewPriorityItems(q) ==
    LET bumps == SelectSeq(priority, LAMBDA p :
                     /\ ~InSeq(NormPath(p), q)
                     /\ GetFile(p) \notin {"verified", "replaced", "skipped"}
                     /\ report[NormPath(p)].codec # "av1")
        new_items == [i \in 1..Len(bumps) |-> NormPath(bumps[i])]
    IN new_items \o q

\* an absent key of an override record is the empty set, a present one the
\* set of its value
NoOverride == [cq |-> {}, cq_offset |-> {}]

ValueOf(optional) == CHOOSE v \in optional : TRUE

Max(a, b) == IF a > b THEN a ELSE b

\* control.py:190-194: the record of the first pattern, from position i, that
\* matches f; the set is empty when none does
RECURSIVE FirstPattern(_, _)
FirstPattern(f, i) ==
    IF i > Len(gentle.patterns) THEN {}
    ELSE IF f \in gentle.patterns[i].matches THEN {gentle.patterns[i].rec}
    ELSE FirstPattern(f, i + 1)

\* control.py:160-201: the override record of f, or None (the empty set)
GetGentleOverride(f) ==
    IF ~gentle.present THEN {}
    ELSE IF gentle.paths[f] # {} THEN gentle.paths[f]
    ELSE IF FirstPattern(f, 1) # {} THEN FirstPattern(f, 1)
    ELSE IF gentle.default_offset # 0
         THEN {[NoOverride EXCEPT !.cq_offset = {gentle.default_offset}]}
    ELSE {}

\* config.py:72-82 and 106, for the movies the report holds
BaseCq(f) == cfg.cq[report[f].resolution]

\* an override in which cq_offset is applied after cq
OffsetWins(rec, base) ==
    LET absolute == IF rec.cq # {} THEN ValueOf(rec.cq) ELSE base
    IN IF rec.cq_offset # {} THEN Max(1, absolute + ValueOf(rec.cq_offset)) ELSE absolute

\* runner.py:161-168: cq_offset is applied, then cq
OverrideCq(rec, base) ==
    LET offset == IF rec.cq_offset # {} THEN Max(1, base + ValueOf(rec.cq_offset)) ELSE base
    IN IF rec.cq # {} THEN ValueOf(rec.cq) ELSE offset

\* runner.py:150-174 and encoding.py:54-68: the -cq of the encoder's command
\* line for f
EncodeCq(f) ==
    LET overrides == GetGentleOverride(f)
    IN IF overrides = {} \/ overrides = {NoOverride} THEN BaseCq(f)
       ELSE OverrideCq(ValueOf(overrides), BaseCq(f))

\* a base configuration into which the overrides of f are written
OverridesWrittenToBase(f) ==
    [cfg EXCEPT !.cq[report[f].resolution] = EncodeCq(f)]

\* runner.py:152-156: self.config after _apply_gentle_overrides(item), which
\* returns it as it is when f has no override and else writes the overrides
\* into a deep copy of it
BaseAfterOverrides(f) == cfg

\* ------------------------------------------------------------------ store

\* state.py:69-79: the locked update of the record
SetFile(t, f, s, next) ==
    /\ lock \in {"none", t}
    /\ data' = [data EXCEPT !.files[f] = s]
    /\ pc' = [pc EXCEPT ![t] = "save"]
    /\ ret' = [ret EXCEPT ![t] = next]

\* save without the lock: any thread enters at any time
SaveEntersUnlocked(t) == TRUE

\* state.py:56: save enters when the lock is free, or held by the thread itself
SaveEnters(t) == lock \in {"none", t}

\* save that leaves the lock of the fetch claim held into the copy
SaveKeepsClaimLock(t) ==
    /\ pc[t] = "save"
    /\ SaveEnters(t)
    /\ stateFile' = [kind |-> "complete", data |-> data]
    /\ lock' = IF ret[t] = "f_copy" THEN t ELSE "none"
    /\ Goto(t, ret[t])
    /\ UNCHANGED <<inputVars, envVars, data, tmpFile, fsVars, ret, orchVars, preVars,
                   procVars, hist>>

\* state.py:55-62 as one step: the state file becomes the snapshot of data
Save(t) ==
    /\ pc[t] = "save"
    /\ SaveEnters(t)
    /\ stateFile' = [kind |-> "complete", data |-> data]
    /\ lock' = "none"
    /\ Goto(t, ret[t])
    /\ UNCHANGED <<inputVars, envVars, data, tmpFile, fsVars, ret, orchVars, preVars,
                   procVars, hist>>

\* state.py:56-60: save takes the lock and opens the .tmp file for writing
SaveOpen(t) ==
    /\ pc[t] = "save"
    /\ SaveEnters(t)
    /\ lock' = t
    /\ tmpFile' = [kind |-> "partial", data |-> FreshData]
    /\ Goto(t, "save_dump")
    /\ UNCHANGED <<inputVars, envVars, data, stateFile, fsVars, ret, orchVars, preVars,
                   procVars, hist>>

\* state.py:61: json.dump has written the whole document
SaveDump(t) ==
    /\ pc[t] = "save_dump"
    /\ tmpFile' = [kind |-> "complete", data |-> data]
    /\ Goto(t, "save_replace")
    /\ UNCHANGED <<inputVars, envVars, data, lock, stateFile, fsVars, ret, orchVars,
                   preVars, procVars, hist>>

\* state.py:62: os.replace moves the .tmp file over the state file, and the
\* lock is released
SaveReplace(t) ==
    /\ pc[t] = "save_replace"
    /\ tmpFile.kind # "absent"
    /\ stateFile' = tmpFile
    /\ tmpFile' = [kind |-> "absent", data |-> FreshData]
    /\ lock' = "none"
    /\ Goto(t, ret[t])
    /\ UNCHANGED <<inputVars, envVars, data, fsVars, ret, orchVars, preVars, procVars,
                   hist>>

\* -------------------------------------------------------------- stage_fetch

\* where stage_fetch returns to: the prefetch loop (runner.py:136-139) or one
\* of the two inline calls of process_item (runner.py:296-304)
ReturnLabel(t, ok) ==
    IF t = "pre" THEN "p_item"
    ELSE IF ok THEN "pi_sd1"
    ELSE IF site = 1 THEN "o_wait" ELSE "o_fail"

\* runner.py:137-138 and the loop's next item
ReturnLocals(t, ok) ==
    IF t = "pre"
    THEN pidx' = pidx + 1
    ELSE UNCHANGED pidx

\* stages.py:45-67: the three pre-flight gates
GatesBlock(f) ==
    \/ GetStagingUsage + report[f].size > cfg.max_staging_bytes
    \/ GetFreeSpace < cfg.min_free_space_bytes + report[f].size
    \/ FetchUsage + report[f].size > cfg.max_fetch_buffer_bytes

\* a blocked gate that records the failure on the item
FetchGatesMarking(t) ==
    /\ pc[t] = "f_gates"
    /\ IF GatesBlock(TheItem(t))
       THEN /\ SetFile(t, TheItem(t), "error", ReturnLabel(t, FALSE))
            /\ ReturnLocals(t, FALSE)
       ELSE Goto(t, "f_exists") /\ UNCHANGED <<data, ret, pidx>>
    /\ UNCHANGED <<inputVars, envVars, lock, stateFile, tmpFile, fsVars, orchVars, pqueue,
                   procVars, hist>>

FetchGates(t) ==
    /\ pc[t] = "f_gates"
    /\ IF GatesBlock(TheItem(t))
       THEN Goto(t, ReturnLabel(t, FALSE)) /\ ReturnLocals(t, FALSE)
       ELSE Goto(t, "f_exists") /\ UNCHANGED pidx
    /\ UNCHANGED <<inputVars, envVars, storeVars, fsVars, ret, orchVars, pqueue,
                   procVars, hist>>

\* stages.py:69-73
FetchExists(t) ==
    /\ pc[t] = "f_exists"
    /\ IF nas[TheItem(t)].S = "none"
       THEN /\ SetFile(t, TheItem(t), "skipped", ReturnLabel(t, FALSE))
            /\ ReturnLocals(t, FALSE)
       ELSE Goto(t, "f_claim") /\ UNCHANGED <<data, ret, pidx>>
    /\ UNCHANGED <<inputVars, envVars, lock, stateFile, tmpFile, fsVars, orchVars,
                   pqueue, procVars, hist>>

\* stages.py:80: the statuses in which the claim gives up
ClaimRefused(s) == s = "fetching"

\* stages.py:77-82: the claim; the lock is kept until the save has returned
FetchClaim(t) ==
    /\ pc[t] = "f_claim"
    /\ lock = "none"
    /\ IF ClaimRefused(data.files[TheItem(t)])
       THEN /\ Goto(t, ReturnLabel(t, FALSE)) /\ ReturnLocals(t, FALSE)
            /\ UNCHANGED <<data, lock, ret>>
       ELSE /\ SetFile(t, TheItem(t), "fetching", "f_copy")
            /\ lock' = t
            /\ UNCHANGED pidx
    /\ UNCHANGED <<inputVars, envVars, stateFile, tmpFile, fsVars, orchVars, pqueue,
                   procVars, hist>>

\* stages.py:88: copy2 opens the local file, or raises
FetchCopy(t) ==
    /\ pc[t] = "f_copy"
    /\ \/ NoFault /\ local' = [local EXCEPT ![TheItem(t)] = "partial"] /\ Goto(t, "f_copying")
       \/ Fault /\ Goto(t, "f_fail") /\ UNCHANGED local
    /\ UNCHANGED <<inputVars, ctlVars, storeVars, remux, encoded, nas, ret, orchVars,
                   preVars, procVars, hist>>

\* stages.py:88: copy2 completes, or raises
FetchCopying(t) ==
    /\ pc[t] = "f_copying"
    /\ \/ NoFault /\ local' = [local EXCEPT ![TheItem(t)] = "full"] /\ Goto(t, "f_fetched")
       \/ Fault /\ Goto(t, "f_fail") /\ UNCHANGED local
    /\ UNCHANGED <<inputVars, ctlVars, storeVars, remux, encoded, nas, ret, orchVars,
                   preVars, procVars, hist>>

\* stages.py:92-93
FetchFetched(t) ==
    /\ pc[t] = "f_fetched"
    /\ SetFile(t, TheItem(t), "fetched", ReturnLabel(t, TRUE))
    /\ ReturnLocals(t, TRUE)
    /\ UNCHANGED <<inputVars, envVars, lock, stateFile, tmpFile, fsVars, orchVars,
                   pqueue, procVars, hist>>

\* stages.py:94-96
FetchFail(t) ==
    /\ pc[t] = "f_fail"
    /\ SetFile(t, TheItem(t), "error", "f_cleanup")
    /\ UNCHANGED <<inputVars, envVars, lock, stateFile, tmpFile, fsVars, orchVars,
                   preVars, procVars, hist>>

\* stages.py:97-103
FetchCleanup(t) ==
    /\ pc[t] = "f_cleanup"
    /\ local' = [local EXCEPT ![TheItem(t)] = "absent"]
    /\ Goto(t, ReturnLabel(t, FALSE)) /\ ReturnLocals(t, FALSE)
    /\ UNCHANGED <<inputVars, envVars, storeVars, remux, encoded, nas, ret, orchVars,
                   pqueue, procVars, hist>>

\* --------------------------------------------------------- _prefetch_worker

\* runner.py:110-111, and 141-146 of the pass before
PreTop ==
    /\ pc["pre"] = "p_top"
    /\ IF shutdown
       THEN Goto("pre", "p_done") /\ UNCHANGED pidx
       ELSE Goto("pre", "p_item") /\ pidx' = 1
    /\ UNCHANGED <<inputVars, envVars, storeVars, fsVars, ret, orchVars, pqueue,
                   procVars, hist>>

\* runner.py:120-122: the statuses the prefetch worker passes on to a fetch
PrefetchWants(s) == s \in {"pending", "none"}

\* runner.py:112-123
PreItem ==
    /\ pc["pre"] = "p_item"
    /\ lock = "none"
    /\ IF pidx > Len(pqueue) \/ shutdown
       THEN Goto("pre", "p_top") /\ UNCHANGED pidx
       ELSE IF PrefetchWants(data.files[pqueue[pidx]])
            THEN Goto("pre", "p_skip") /\ UNCHANGED pidx
            ELSE pidx' = pidx + 1 /\ UNCHANGED pc
    /\ UNCHANGED <<inputVars, envVars, storeVars, fsVars, ret, orchVars, pqueue, procVars, hist>>

\* runner.py:125-127
PreSkip ==
    /\ pc["pre"] = "p_skip"
    /\ IF ShouldSkip(pqueue[pidx])
       THEN Goto("pre", "p_item") /\ pidx' = pidx + 1
       ELSE Goto("pre", "p_pause") /\ UNCHANGED pidx
    /\ UNCHANGED <<inputVars, envVars, storeVars, fsVars, ret, orchVars, pqueue, procVars, hist>>

\* a fetch pause that every pause type switches on
IsFetchPausedByAny == pause \in {"all", "fetch_only", "encode_only"}

\* control.py:140-143
IsFetchPaused == pause \in {"all", "fetch_only"}

\* runner.py:129-136: the wait ends when the fetch pause is lifted, or on shutdown
PrePause ==
    /\ pc["pre"] = "p_pause"
    /\ shutdown \/ ~IsFetchPaused
    /\ Goto("pre", IF shutdown THEN "p_top" ELSE "f_gates")
    /\ UNCHANGED <<inputVars, envVars, storeVars, fsVars, ret, orchVars, preVars,
                   procVars, hist>>

\* ------------------------------------------------------------ Pipeline.run

\* runner.py:454-457
PrioritySet == {NormPath(priority[i]) : i \in 1..Len(priority)}

\* runner.py:461-491: the selection scan from position i, with first_pending
\* fp (0: None) and all_done ad
RECURSIVE Scan(_, _, _, _)
Scan(q, i, fp, ad) ==
    IF i > Len(q) THEN [ready |-> 0, first_pending |-> fp, all_done |-> ad]
    ELSE LET s == data.files[q[i]] IN
         IF s \in TerminalStatuses THEN Scan(q, i + 1, fp, ad)
         ELSE IF s \in ReadyStatuses
              THEN [ready |-> q[i], first_pending |-> fp, all_done |-> FALSE]
         ELSE IF fp = 0 /\ s \in {"none", "pending"}
              THEN IF q[i] \in PrioritySet
                   THEN [ready |-> q[i], first_pending |-> fp, all_done |-> FALSE]
                   ELSE Scan(q, i + 1, q[i], FALSE)
         ELSE Scan(q, i + 1, fp, FALSE)

\* runner.py:448: processed is kept modulo ReapplyEvery once it is positive
\* (ReapplyEvery stands for every positive multiple), and last_progress_at is
\* cleared when processed leaves a multiple, so that
\* processed # last_progress_at is what it is in the code
ReapplyDue == processed = ReapplyEvery /\ processed # last_progress_at

\* control.py:126-138: check_pause returns when no pause of any type is active
CheckPauseReturns == pause = "none"

\* runner.py:438-503: one pass of the main loop up to the selection
OrchLoop ==
    /\ pc["orch"] = "o_loop"
    /\ lock = "none"
    /\ shutdown \/ CheckPauseReturns
    /\ IF shutdown
       THEN Goto("orch", "o_exit") /\ UNCHANGED <<cur, queue, last_progress_at>>
       ELSE LET q1 == InjectNewPriorityItems(queue)
                q2 == IF ReapplyDue THEN ApplyQueueOverrides(q1) ELSE q1
                sel == Scan(q2, 1, 0, TRUE)
                item == IF sel.ready # 0 THEN sel.ready ELSE sel.first_pending
            IN /\ queue' = q2
               /\ last_progress_at' = IF ReapplyDue THEN processed ELSE last_progress_at
               /\ IF sel.all_done
                  THEN Goto("orch", "o_exit") /\ UNCHANGED cur
                  ELSE IF item = 0
                       THEN /\ IF Alive THEN UNCHANGED pc ELSE Goto("orch", "o_exit")
                            /\ UNCHANGED cur
                       ELSE Goto("orch", "o_skipchk") /\ cur' = item
    /\ hist' = IF pc'["orch"] = "o_skipchk" THEN [hist EXCEPT !.prioNext = 0] ELSE hist
    /\ UNCHANGED <<inputVars, envVars, storeVars, fsVars, ret, site, processed,
                   preVars, procVars>>

\* runner.py:507-513
OrchSkipCheck ==
    /\ pc["orch"] = "o_skipchk"
    /\ IF ShouldSkip(cur)
       THEN /\ SetFile("orch", cur, "skipped", "o_loop")
            /\ UNCHANGED <<processed, last_progress_at>>
       ELSE /\ Goto("orch", "pi_read")
            /\ processed' = IF processed = ReapplyEvery THEN 1 ELSE processed + 1
            /\ last_progress_at' = IF processed = ReapplyEvery THEN 0 ELSE last_progress_at
            /\ UNCHANGED <<data, ret>>
    /\ UNCHANGED <<inputVars, envVars, lock, stateFile, tmpFile, fsVars, cur, queue, site, preVars, procVars, hist>>

\* runner.py:518-520
OrchFail ==
    /\ pc["orch"] = "o_fail"
    /\ IF shutdown
       THEN Goto("orch", "o_loop") /\ UNCHANGED <<data, ret, hist>>
       ELSE /\ data' = [data EXCEPT !.errors = Min(@ + 1, MaxErrors)]
            /\ pc' = [pc EXCEPT !["orch"] = "save"]
            /\ ret' = [ret EXCEPT !["orch"] = "o_loop"]
            /\ hist' = [hist EXCEPT !.failed = @ \cup {cur}]
    /\ UNCHANGED <<inputVars, envVars, lock, stateFile, tmpFile, fsVars, orchVars,
                   preVars, procVars>>

\* runner.py:523-524
OrchExit ==
    /\ pc["orch"] = "o_exit"
    /\ shutdown' = TRUE
    /\ Goto("orch", "o_join")
    /\ UNCHANGED <<inputVars, envVars, storeVars, fsVars, ret, orchVars, preVars,
                   runsLeft, hist>>

\* ------------------------------------------------------------- process_item

\* runner.py:276-296
PiRead ==
    /\ pc["orch"] = "pi_read"
    /\ lock = "none"
    /\ site' = 1
    /\ LET current_status == data.files[cur]
       IN Goto("orch", IF current_status \in ZombieStatuses THEN "pi_zombie"
                       ELSE IF current_status \in {"none", "pending"} THEN "f_gates"
                       ELSE "pi_sd1")
    /\ cfg' = BaseAfterOverrides(cur)
    /\ UNCHANGED <<report, gentle, envVars, storeVars, fsVars, ret, cur, queue, processed,
                   last_progress_at, preVars, procVars, hist>>

\* runner.py:287-288
PiZombie ==
    /\ pc["orch"] = "pi_zombie"
    /\ Goto("orch", IF local[cur] = "absent" THEN "pi_reset" ELSE "pi_sd1")
    /\ UNCHANGED <<inputVars, envVars, storeVars, fsVars, ret, orchVars, preVars,
                   procVars, hist>>

\* runner.py:289-296
PiReset ==
    /\ pc["orch"] = "pi_reset"
    /\ SetFile("orch", cur, "pending", "f_gates")
    /\ UNCHANGED <<inputVars, envVars, lock, stateFile, tmpFile, fsVars, cur, queue, site,
                   processed, last_progress_at, preVars, procVars, hist>>

\* runner.py:89-100 and 298-300
OrchWait ==
    /\ pc["orch"] = "o_wait"
    /\ \/ shutdown
       \/ /\ GetStagingUsage < cfg.max_staging_bytes
          /\ GetFreeSpace > cfg.min_free_space_bytes
    /\ IF shutdown
       THEN Goto("orch", "o_fail") /\ UNCHANGED site
       ELSE Goto("orch", "f_gates") /\ site' = 2
    /\ UNCHANGED <<inputVars, envVars, storeVars, fsVars, ret, cur, queue, processed,
                   last_progress_at, preVars, procVars, hist>>

\* a shutdown check of process_item and the status read after it, which
\* enters the stage `stage` when the status is in `want`
PiCheck(at, want, stage, otherwise) ==
    /\ pc["orch"] = at
    /\ lock = "none"
    /\ Goto("orch", IF shutdown THEN "o_fail"
                    ELSE IF data.files[cur] \in want THEN stage
                    ELSE otherwise)
    /\ UNCHANGED <<inputVars, envVars, storeVars, fsVars, ret, orchVars, preVars,
                   procVars, hist>>

\* runner.py:306-315
PiSd1 == PiCheck("pi_sd1", {"fetched"}, "e_check", "pi_sd2")

\* runner.py:317-326
PiSd2 == PiCheck("pi_sd2", {"encoded"}, "u_check", "pi_sd3")

\* runner.py:328-337
PiSd3 == PiCheck("pi_sd3", {"uploaded"}, "v_check", "pi_sd4")

\* runner.py:339-355
PiSd4 ==
    PiCheck("pi_sd4",
            (IF cfg.replace_original THEN {"verified"} ELSE {}) \cup {"replacing"},
            "r_check",
            IF data.files[cur] \in {"verified", "replaced"} THEN "o_loop" ELSE "o_fail")

\* ------------------------------------------------------------- stage_encode

\* the frame of an orchestrator step that touches the store only by SetFile
OrchStoreFrame ==
    UNCHANGED <<inputVars, envVars, lock, stateFile, tmpFile, fsVars, orchVars, preVars,
                procVars, hist>>

\* the frame of an orchestrator step that only moves on
OrchFrame ==
    UNCHANGED <<inputVars, envVars, storeVars, fsVars, ret, orchVars, preVars, procVars,
                hist>>

\* the frame of an orchestrator step on the staging directory or the NAS
OrchFsFrame ==
    UNCHANGED <<inputVars, envVars, storeVars, ret, orchVars, preVars, procVars, hist>>

\* the same, of a step that may fail
OrchIoFrame ==
    UNCHANGED <<inputVars, ctlVars, storeVars, ret, orchVars, preVars, procVars, hist>>

\* encoding.py:171-191
EncCheck ==
    /\ pc["orch"] = "e_check"
    /\ IF local[cur] = "absent"
       THEN SetFile("orch", cur, "error", "o_fail")
       ELSE /\ Goto("orch", IF NeedsRemux(cur) THEN "e_remux" ELSE "e_setenc")
            /\ UNCHANGED <<data, ret>>
    /\ OrchStoreFrame

\* encoding.py:136-149: ffmpeg opens the remuxed file
EncRemux ==
    /\ pc["orch"] = "e_remux"
    /\ remux' = [remux EXCEPT ![cur] = "partial"]
    /\ Goto("orch", "e_remuxing")
    /\ UNCHANGED <<local, encoded, nas>>
    /\ OrchFsFrame

\* encoding.py:150-165: the remux ends, well or not (its output is then removed)
EncRemuxing ==
    /\ pc["orch"] = "e_remuxing"
    /\ \/ NoFault /\ remux' = [remux EXCEPT ![cur] = "full"] /\ Goto("orch", "e_setenc")
       \/ Fault /\ remux' = [remux EXCEPT ![cur] = "absent"]
                        /\ Goto("orch", "e_remuxfail")
    /\ UNCHANGED <<local, encoded, nas>>
    /\ OrchIoFrame

\* encoding.py:185-188
EncRemuxFail ==
    /\ pc["orch"] = "e_remuxfail"
    /\ SetFile("orch", cur, "error", "o_fail")
    /\ OrchStoreFrame

\* encoding.py:201-202
EncSetEncoding ==
    /\ pc["orch"] = "e_setenc"
    /\ SetFile("orch", cur, "encoding", "e_popen")
    /\ OrchStoreFrame

\* encoding.py:204-221: the encoder starts and opens its output; usedCq
\* remembers the -cq of its command line
EncPopen ==
    /\ pc["orch"] = "e_popen"
    /\ encoded' = [encoded EXCEPT ![cur] = "partial"]
    /\ hist' = [hist EXCEPT !.usedCq[cur] = {EncodeCq(cur)}]
    /\ Goto("orch", "e_run")
    /\ UNCHANGED <<local, remux, nas>>
    /\ UNCHANGED <<inputVars, envVars, storeVars, ret, orchVars, preVars, procVars>>

\* encoding.py:222-225: the encoder exits with 0, or not
EncRun ==
    /\ pc["orch"] = "e_run"
    /\ \/ NoFault /\ encoded' = [encoded EXCEPT ![cur] = "full"] /\ Goto("orch", "e_setencoded")
       \/ Fault /\ Goto("orch", "e_fail") /\ UNCHANGED encoded
    /\ UNCHANGED <<local, remux, nas>>
    /\ OrchIoFrame

\* encoding.py:229-230
EncFail ==
    /\ pc["orch"] = "e_fail"
    /\ SetFile("orch", cur, "error", "e_failclean")
    /\ OrchStoreFrame

\* encoding.py:231-235
EncFailClean ==
    /\ pc["orch"] = "e_failclean"
    /\ encoded' = [encoded EXCEPT ![cur] = "absent"]
    /\ remux' = [remux EXCEPT ![cur] = "absent"]
    /\ Goto("orch", "o_fail")
    /\ UNCHANGED <<local, nas>>
    /\ OrchFsFrame

\* encoding.py:266-272
EncSetEncoded ==
    /\ pc["orch"] = "e_setencoded"
    /\ SetFile("orch", cur, "encoded", "e_clean")
    /\ OrchStoreFrame

\* encoding.py:274-285
EncClean ==
    /\ pc["orch"] = "e_clean"
    /\ remux' = [remux EXCEPT ![cur] = "absent"]
    /\ local' = [local EXCEPT ![cur] = "absent"]
    /\ data' = [data EXCEPT !.stats.encode_secs = @ + Elapsed(cur)]
    /\ Goto("orch", "pi_sd2")
    /\ UNCHANGED <<encoded, nas>>
    /\ UNCHANGED <<inputVars, envVars, lock, stateFile, tmpFile, ret, orchVars, preVars,
                   procVars, hist>>

\* ------------------------------------------------------------- stage_upload

\* an upload that goes ahead whatever is at the destination
DestinationNeverBlocks(f) == FALSE

\* stages.py:125: the destination .av1.mkv exists and may not be overwritten
DestinationBlocks(f) == nas[f].D # "none" /\ ~cfg.overwrite_existing

\* stages.py:109-134; destSkipped remembers the items skipped for their
\* destination
UpCheck ==
    /\ pc["orch"] = "u_check"
    /\ IF encoded[cur] = "absent"
       THEN SetFile("orch", cur, "error", "o_fail") /\ UNCHANGED hist
       ELSE IF DestinationBlocks(cur)
            THEN /\ SetFile("orch", cur, "skipped", "u_skipclean")
                 /\ hist' = [hist EXCEPT !.destSkipped = @ \cup {cur}]
            ELSE SetFile("orch", cur, "uploading", "u_copy") /\ UNCHANGED hist
    /\ UNCHANGED <<inputVars, envVars, lock, stateFile, tmpFile, fsVars, orchVars, preVars,
                   procVars>>

\* stages.py:129-132
UpSkipClean ==
    /\ pc["orch"] = "u_skipclean"
    /\ encoded' = [encoded EXCEPT ![cur] = "absent"]
    /\ Goto("orch", "pi_sd3")
    /\ UNCHANGED <<local, remux, nas>>
    /\ OrchFsFrame

\* stages.py:139: copy2 opens the destination, or raises
UpCopy ==
    /\ pc["orch"] = "u_copy"
    /\ \/ NoFault /\ nas' = [nas EXCEPT ![cur].D = "part"] /\ Goto("orch", "u_copying")
       \/ Fault /\ Goto("orch", "u_fail") /\ UNCHANGED nas
    /\ UNCHANGED <<local, remux, encoded>>
    /\ OrchIoFrame

\* stages.py:139: copy2 completes, or raises
UpCopying ==
    /\ pc["orch"] = "u_copying"
    /\ \/ NoFault /\ nas' = [nas EXCEPT ![cur].D = "av1"] /\ Goto("orch", "u_setuploaded")
       \/ Fault /\ Goto("orch", "u_fail") /\ UNCHANGED nas
    /\ UNCHANGED <<local, remux, encoded>>
    /\ OrchIoFrame

\* stages.py:145
UpSetUploaded ==
    /\ pc["orch"] = "u_setuploaded"
    /\ SetFile("orch", cur, "uploaded", "u_clean")
    /\ OrchStoreFrame

\* stages.py:147-151
UpClean ==
    /\ pc["orch"] = "u_clean"
    /\ encoded' = [encoded EXCEPT ![cur] = "absent"]
    /\ Goto("orch", "pi_sd3")
    /\ UNCHANGED <<local, remux, nas>>
    /\ OrchFsFrame

\* stages.py:153-156
UpFail ==
    /\ pc["orch"] = "u_fail"
    /\ SetFile("orch", cur, "error", "o_fail")
    /\ OrchStoreFrame

\* ------------------------------------------------------------- stage_verify

\* stages.py:161-191: the destination must exist and its probed duration must
\* match; a destination that is not a whole copy of the encoder's output does
\* not, and the probe may fail on any
VerCheck ==
    /\ pc["orch"] = "v_check"
    /\ \/ /\ nas[cur].D = "av1"
          /\ NoFault
          /\ SetFile("orch", cur, "verified", "v_stats")
       \/ /\ IF nas[cur].D # "av1" THEN NoFault ELSE Fault
          /\ SetFile("orch", cur, "error", "o_fail")
    /\ UNCHANGED <<inputVars, ctlVars, lock, stateFile, tmpFile, fsVars, orchVars, preVars,
                   procVars, hist>>

\* stages.py:193-218: the stats are updated and the state is saved once more
VerStats ==
    /\ pc["orch"] = "v_stats"
    /\ pc' = [pc EXCEPT !["orch"] = "save"]
    /\ ret' = [ret EXCEPT !["orch"] = "pi_sd4"]
    /\ LET saved == report[cur].size - EncodedSize(cur)
           add(b, secs) == [completed |-> b.completed + 1,
                            bytes_saved |-> b.bytes_saved + saved,
                            encode_secs |-> b.encode_secs + secs]
       IN data' = [data EXCEPT !.stats = add(@, 0),
                               !.tier = add(@, RoundTenths(Elapsed(cur)))]
    /\ OrchStoreFrame

\* ------------------------------------------------------------ stage_replace

\* stages.py:227-245
RepCheck ==
    /\ pc["orch"] = "r_check"
    /\ IF nas[cur].D = "none"
       THEN SetFile("orch", cur, "error", "o_fail")
       ELSE SetFile("orch", cur, "replacing", "r_step1")
    /\ OrchStoreFrame

\* stages.py:248-251: step 1 on the NAS paths n of one file
Step1(n) ==
    IF n.S # "none" /\ n.B = "none"
    THEN [n EXCEPT !.B = n.S, !.S = "none"]
    ELSE n

\* step 2 that renames nothing
Step2Skipped(n, fs) == n

\* stages.py:253-259: step 2, with final_path the slot fs
Step2(n, fs) ==
    IF n.D # "none"
    THEN [n EXCEPT ![fs] = n.D, !.D = "none"]
    ELSE n

\* stages.py:261-264: step 3
Step3(n) == IF n.B # "none" THEN [n EXCEPT !.B = "none"] ELSE n

RepStep(at, n, to) ==
    /\ pc["orch"] = at
    /\ \/ NoFault /\ nas' = [nas EXCEPT ![cur] = n] /\ Goto("orch", to)
       \/ Fault /\ Goto("orch", "r_fail") /\ UNCHANGED nas
    /\ UNCHANGED <<local, remux, encoded>>
    /\ OrchIoFrame

RepStep1 == RepStep("r_step1", Step1(nas[cur]), "r_step2")

RepStep2 == RepStep("r_step2", Step2(nas[cur], FinalSlot(cur)), "r_step3")

RepStep3 == RepStep("r_step3", Step3(nas[cur]), "r_setreplaced")

\* stages.py:266-268
RepSetReplaced ==
    /\ pc["orch"] = "r_setreplaced"
    /\ SetFile("orch", cur, "replaced", "o_loop")
    /\ OrchStoreFrame

\* stages.py:270-275
RepFail ==
    /\ pc["orch"] = "r_fail"
    /\ SetFile("orch", cur, "error", "o_fail")
    /\ OrchStoreFrame

\* -------------------------------------------------- process start and end

FileSeq == [i \in 1..NumFiles |-> i]

\* queue.py:50: float("inf"), the upper bitrate bound of a tier that names none
NoMax == 1000000

\* config.py:55-65: the priority tiers, a codec or resolution of None being
\* "any"; bitrates in kbps
PriorityTiers ==
    <<[codec |-> "h264", resolution |-> "1080p", min |-> 0, max |-> NoMax],
      [codec |-> "hevc", resolution |-> "1080p", min |-> 15000, max |-> NoMax],
      [codec |-> "hevc", resolution |-> "4K", min |-> 25000, max |-> NoMax],
      [codec |-> "h264", resolution |-> "any", min |-> 0, max |-> NoMax],
      [codec |-> "hevc", resolution |-> "1080p", min |-> 0, max |-> 15000],
      [codec |-> "hevc", resolution |-> "4K", min |-> 20000, max |-> 25000],
      [codec |-> "hevc", resolution |-> "4K", min |-> 0, max |-> 20000],
      [codec |-> "hevc", resolution |-> "any", min |-> 0, max |-> NoMax],
      [codec |-> "any", resolution |-> "any", min |-> 0, max |-> NoMax]>>

\* queue.py:47-53: the tier matches the report entry of f
TierMatches(tier, f) ==
    /\ tier.codec = "any" \/ tier.codec = report[f].codec
    /\ tier.resolution = "any" \/ tier.resolution = report[f].resolution
    /\ report[f].bitrate >= tier.min /\ report[f].bitrate <= tier.max

\* queue.py:45-55: the loop over the tiers from position idx, which stops at
\* the first match; the indices are those of enumerate, from 0
RECURSIVE FirstTier(_, _)
FirstTier(f, idx) ==
    IF idx > Len(cfg.priority_tiers) THEN Len(cfg.priority_tiers)
    ELSE IF TierMatches(cfg.priority_tiers[idx], f) THEN idx - 1
    ELSE FirstTier(f, idx + 1)

\* queue.py:71: the item's priority_tier
TierIndex(f) == FirstTier(f, 1)

\* a sort key that puts the small files first within a tier
BeforeSmallFirst(a, b) ==
    \/ TierIndex(a) < TierIndex(b)
    \/ TierIndex(a) = TierIndex(b) /\ report[a].size < report[b].size

\* queue.py:76: the sort key's order
Before(a, b) ==
    \/ TierIndex(a) < TierIndex(b)
    \/ TierIndex(a) = TierIndex(b) /\ report[a].size > report[b].size

RECURSIVE Insert(_, _)
Insert(q, f) ==
    IF q = <<>> THEN <<f>>
    ELSE IF Before(f, Head(q)) THEN <<f>> \o q
    ELSE <<Head(q)>> \o Insert(Tail(q), f)

\* queue.py:76: list.sort is stable
RECURSIVE SortQueue(_)
SortQueue(q) ==
    IF q = <<>> THEN <<>>
    ELSE Insert(SortQueue(SubSeq(q, 1, Len(q) - 1)), q[Len(q)])

\* queue.py:41: the statuses build_priority_queue leaves out of the queue
QueueExcludes(s) == s \in {"verified", "skipped"}

\* queue.py:25-37: the records build_priority_queue writes, on the loaded data d
BuildMarks(d) ==
    [d EXCEPT !.files = [f \in Files |->
        IF report[f].codec \in {"av1", "unknown"} /\ d.files[f] = "none"
        THEN "skipped" ELSE d.files[f]]]

\* queue.py:9-91
BuildPriorityQueue(d) ==
    SortQueue(SelectSeq(FileSeq, LAMBDA f :
        /\ report[f].codec \notin {"av1", "unknown"}
        /\ ~QueueExcludes(d.files[f])))

\* __main__.py:113-116: --tier keeps the items of one tier; only_tier is the
\* index of the tier named, or -1 when the option is not given
FilterTier(q) ==
    IF cfg.only_tier = -1 THEN q
    ELSE SelectSeq(q, LAMBDA f : TierIndex(f) = cfg.only_tier)

NoThread == [t \in Threads |-> "off"]

\* the memory of a process that is not running
Down ==
    /\ pc' = NoThread
    /\ ret' = NoThread
    /\ data' = FreshData
    /\ lock' = "none"
    /\ cur' = 0
    /\ queue' = <<>>
    /\ site' = 1
    /\ processed' = 0
    /\ last_progress_at' = 0
    /\ pqueue' = <<>>
    /\ pidx' = 1
    /\ shutdown' = FALSE

\* state.py:49-53, __main__.py:96-124 and runner.py:398-435: the state is
\* loaded and saved, the queue is built, the overrides are applied and the
\* prefetch thread is started
Start ==
    /\ pc["orch"] = "off"
    /\ runsLeft > 0
    /\ stateFile.kind # "partial"
    /\ runsLeft' = runsLeft - 1
    /\ LET loaded == IF stateFile.kind = "complete" THEN stateFile.data ELSE FreshData
           d == BuildMarks(loaded)
           q == FilterTier(BuildPriorityQueue(loaded))
       IN /\ stateFile' = [kind |-> "complete", data |-> d]
          /\ hist' = [hist EXCEPT !.atStart = d.files, !.runs = @ + 1,
                                   !.finished = IF q = <<>> THEN @ + 1 ELSE @,
                                   !.signals = 0, !.forced = FALSE, !.failed = {},
                                   !.pausedDuring = 0, !.prioPaused = {}]
          /\ IF q = <<>>
             THEN UNCHANGED <<data, pc, queue, pqueue>>
             ELSE /\ data' = d
                  /\ queue' = ApplyQueueOverrides(q)
                  /\ pqueue' = queue'
                  /\ pc' = [pc EXCEPT !["orch"] = "o_loop", !["pre"] = "p_top"]
    /\ UNCHANGED <<inputVars, envVars, lock, tmpFile, fsVars, ret, cur, site,
                   processed, last_progress_at, pidx, shutdown>>

\* runner.py:525-530: join gives the prefetch thread ten seconds, then run
\* returns and the process ends, and with it the daemon thread
OrchJoin ==
    /\ pc["orch"] = "o_join"
    /\ Down
    /\ hist' = [hist EXCEPT !.finished = @ + 1]
    /\ UNCHANGED <<inputVars, envVars, stateFile, tmpFile, fsVars, runsLeft>>

\* the orchestrator has just written one of the durable statuses that end a
\* stage (stages.py:92, encoding.py:266, stages.py:145, 188, 266) and has not
\* moved since
AtStageBoundary ==
    /\ cur # 0
    /\ pc["orch"] = ret["orch"]
    /\ stateFile.data.files[cur] = data.files[cur]
    /\ <<pc["orch"], data.files[cur]>> \in
           {<<"pi_sd1", "fetched">>, <<"e_clean", "encoded">>, <<"u_clean", "uploaded">>,
            <<"v_stats", "verified">>, <<"o_loop", "replaced">>}

\* one thread is inside save and the other one waits to enter it
MidSave ==
    \E t \in Threads :
        /\ pc[t] \in {"save_dump", "save_replace"}
        /\ \A u \in Threads \ {t} : pc[u] = "save"

\* the process is killed between two steps
Crash ==
    /\ pc["orch"] # "off"
    /\ runsLeft > 0
    /\ Down
    /\ hist' = [hist EXCEPT !.crashed = TRUE, !.boundary = AtStageBoundary,
                             !.midSave = MidSave,
                             !.afterStep1 = IF pc["orch"] = "r_step2" THEN cur ELSE 0]
    /\ UNCHANGED <<inputVars, envVars, stateFile, tmpFile, fsVars, runsLeft>>

\* ------------------------------------------------------------- the operator

\* the operator adds a path to control/skip.json during a run
AddSkip(f) ==
    /\ pc["orch"] # "off"
    /\ opsLeft > 0
    /\ f \notin skip
    /\ skip' = skip \cup {f}
    /\ opsLeft' = opsLeft - 1
    /\ hist' = [hist EXCEPT
                   !.skipPending = IF data.files[f] \in {"none", "pending"}
                                   THEN @ \cup {f} ELSE @,
                   !.skipPaused = IF data.files[f] \in {"none", "pending"} /\ IsFetchPaused
                                  THEN @ \cup {f} ELSE @]
    /\ UNCHANGED <<inputVars, priority, pause, pauseDir, faultsLeft, storeVars, fsVars, pc, ret, orchVars,
                   preVars, procVars>>

\* the operator adds a path to control/priority.json during a run; prioNext
\* remembers a path of the report that is not in the queue, not AV1 and not
\* in a terminal status, added while the orchestrator is between two items
\* and no pause is active; prioPaused remembers the paths added while an
\* encode-only pause is active that was dropped during the encode of another
\* item
AddPriority(f) ==
    /\ pc["orch"] # "off"
    /\ opsLeft > 0
    /\ ~InSeq(f, priority)
    /\ priority' = Append(priority, f)
    /\ opsLeft' = opsLeft - 1
    /\ hist' = [hist EXCEPT
                   !.prioNext = IF /\ ~InSeq(f, queue)
                                   /\ report[f].codec # "av1"
                                   /\ data.files[f] \notin TerminalStatuses
                                   /\ pause = "none"
                                   /\ pc["orch"] = "o_loop"
                                THEN f ELSE @,
                   !.prioPaused = IF pause = "encode_only" /\ hist.pausedDuring \notin {0, f}
                                  THEN @ \cup {f} ELSE @]
    /\ UNCHANGED <<inputVars, skip, pause, pauseDir, faultsLeft, storeVars, fsVars, pc, ret, orchVars,
                   preVars, procVars>>

\* the encoder subprocess of the orchestrator's item is running
MidEncode == pc["orch"] \in {"e_popen", "e_run"}

\* the operator drops a pause file into the control directory during a run;
\* pausedDuring remembers the item whose encode was running when an
\* encode-only pause was dropped
SetPause(p) ==
    /\ pc["orch"] # "off"
    /\ opsLeft > 0
    /\ pause = "none"
    /\ pauseDir' = Dropped(p)
    /\ pause' = GetPauseType(pauseDir')
    /\ opsLeft' = opsLeft - 1
    /\ hist' = [hist EXCEPT !.pausedDuring = IF p = "encode_only" /\ MidEncode THEN cur ELSE 0]
    /\ UNCHANGED <<inputVars, skip, priority, faultsLeft, storeVars, fsVars, pc, ret, orchVars,
                   preVars, procVars>>

\* the operator deletes the pause file
ClearPause ==
    /\ pause # "none"
    /\ pauseDir' = NoPauseFiles
    /\ pause' = GetPauseType(pauseDir')
    /\ hist' = [hist EXCEPT !.pausedDuring = 0, !.prioPaused = {}]
    /\ UNCHANGED <<inputVars, skip, priority, opsLeft, faultsLeft, storeVars, fsVars, pc, ret,
                   orchVars, preVars, procVars>>

\* runner.py:81-87: SIGINT or SIGTERM reaches the process between two steps of
\* the main thread; the handler sets the flag, or exits the process with
\* status 1 when it finds the flag set
HandleSignal ==
    /\ pc["orch"] # "off"
    /\ opsLeft > 0
    /\ opsLeft' = opsLeft - 1
    /\ IF shutdown
       THEN /\ Down
            /\ hist' = [hist EXCEPT !.signals = @ + 1, !.forced = TRUE]
       ELSE /\ shutdown' = TRUE
            /\ hist' = [hist EXCEPT !.signals = @ + 1]
            /\ UNCHANGED <<data, lock, pc, ret, orchVars, preVars>>
    /\ UNCHANGED <<inputVars, skip, priority, pause, pauseDir, faultsLeft, stateFile, tmpFile, fsVars,
                   runsLeft>>

\* ------------------------------------------------------------ specifications

\* a report entry of a file that is not AV1 yet, and one of a file that is
Entry(sz, cont) ==
    [size |-> sz, codec |-> "h264", container |-> cont, resolution |-> "1080p", bitrate |-> 0]

Av1Entry ==
    [size |-> 1, codec |-> "av1", container |-> "mkv", resolution |-> "1080p", bitrate |-> 0]

\* the budgets of config.py:6-8 in the unit of the file sizes, with a fetch
\* buffer of mfb units; disk_bytes is the size of the staging drive
Config(mfb) ==
    [max_staging_bytes |-> 2 * MaxSize + 2, max_fetch_buffer_bytes |-> mfb,
     min_free_space_bytes |-> 0, disk_bytes |-> 4 * MaxSize,
     replace_original |-> TRUE, overwrite_existing |-> FALSE,
     priority_tiers |-> PriorityTiers, only_tier |-> -1,
     cq |-> [r \in {"4K", "1080p", "720p"} |->
                IF r = "4K" THEN 27 ELSE IF r = "1080p" THEN 28 ELSE 30]]

CleanNas == [S |-> "orig", B |-> "none", D |-> "none", F |-> "none"]

NoHistory == [atStart |-> [f \in Files |-> "none"], runs |-> 0, finished |-> 0,
              crashed |-> FALSE, boundary |-> FALSE, midSave |-> FALSE,
              skipPending |-> {}, skipPaused |-> {}, prioNext |-> 0,
              signals |-> 0, forced |-> FALSE, failed |-> {}, afterStep1 |-> 0,
              pausedDuring |-> 0, prioPaused |-> {}, destSkipped |-> {},
              usedCq |-> [f \in Files |-> {}]]

\* before the first start: nothing staged, no state file, the NAS as one of
\* nases
\* controls: the skip lists and pause types the operator may have left in the
\* control directory; budgets: pairs <<operator edits, failures>>
InitOn(reports, configs, controls, budgets, runs, nases) ==
    /\ report \in reports
    /\ cfg \in configs
    /\ \E c \in controls : skip = c.skip /\ pauseDir = c.pauseDir /\ gentle = c.gentle
    /\ pause = GetPauseType(pauseDir)
    /\ priority = <<>>
    /\ \E b \in budgets : opsLeft = b[1] /\ faultsLeft = b[2]
    /\ data = FreshData
    /\ lock = "none"
    /\ stateFile = [kind |-> "absent", data |-> FreshData]
    /\ tmpFile = [kind |-> "absent", data |-> FreshData]
    /\ local = [f \in Files |-> "absent"]
    /\ remux = [f \in Files |-> "absent"]
    /\ encoded = [f \in Files |-> "absent"]
    /\ nas \in nases
    /\ pc = NoThread
    /\ ret = NoThread
    /\ cur = 0
    /\ queue = <<>>
    /\ site = 1
    /\ processed = 0
    /\ last_progress_at = 0
    /\ pqueue = <<>>
    /\ pidx = 1
    /\ shutdown = FALSE
    /\ runsLeft = runs
    /\ hist = [NoHistory EXCEPT !.skipPending = skip]

\* the same, with the sources in place and nothing else on the NAS
InitWith(reports, configs, controls, budgets, runs) ==
    InitOn(reports, configs, controls, budgets, runs, {[f \in Files |-> CleanNas]})

FetchStep(t) ==
    \/ FetchGates(t) \/ FetchExists(t) \/ FetchClaim(t) \/ FetchCopy(t)
    \/ FetchCopying(t) \/ FetchFetched(t) \/ FetchFail(t) \/ FetchCleanup(t)

PreStep == PreTop \/ PreItem \/ PreSkip \/ PrePause \/ FetchStep("pre")

OrchStep ==
    \/ OrchLoop \/ OrchSkipCheck \/ OrchFail \/ OrchExit \/ OrchWait
    \/ PiRead \/ PiZombie \/ PiReset \/ PiSd1 \/ PiSd2 \/ PiSd3 \/ PiSd4
    \/ FetchStep("orch")
    \/ EncCheck \/ EncRemux \/ EncRemuxing \/ EncRemuxFail \/ EncSetEncoding
    \/ EncPopen \/ EncRun \/ EncFail \/ EncFailClean \/ EncSetEncoded \/ EncClean
    \/ UpCheck \/ UpSkipClean \/ UpCopy \/ UpCopying \/ UpSetUploaded \/ UpClean
    \/ UpFail
    \/ VerCheck \/ VerStats
    \/ RepCheck \/ RepStep1 \/ RepStep2 \/ RepStep3 \/ RepSetReplaced \/ RepFail

Operator ==
    \/ \E f \in Files : AddSkip(f)
    \/ \E f \in Files : AddPriority(f)
    \/ \E p \in {"all", "fetch_only", "encode_only"} : SetPause(p)
    \/ ClearPause

\* control.py:179: no gentle.json, or an empty one
NoGentle ==
    [present |-> FALSE, paths |-> [f \in Files |-> {}], patterns |-> <<>>, default_offset |-> 0]

NoControl == [skip |-> {}, pauseDir |-> NoPauseFiles, gentle |-> NoGentle]

\* two files to encode, the second one behind a remux; and one file to
\* encode, behind a remux, beside one that is AV1 already
TwoFiles == [f \in Files |-> IF f = 1 THEN Entry(MaxSize, "mkv") ELSE Entry(1, "mp4")]

OneFile == [f \in Files |-> IF f = 1 THEN Entry(MaxSize, "mp4") ELSE Av1Entry]

\* one run: of two files, in which the operator edits the control directory,
\* whatever it held at the start; or of one file, in which an operation fails

Init ==
    \/ InitWith({TwoFiles}, {Config(MaxSize)},
                {NoControl, [NoControl EXCEPT !.skip = {1}],
                 [NoControl EXCEPT !.pauseDir = Dropped("fetch_only")],
                 [NoControl EXCEPT !.pauseDir = Dropped("encode_only")]},
                {<<MaxOps, 0>>}, 1)
    \/ InitWith({OneFile}, {Config(MaxSize)}, {NoControl}, {<<0, MaxFaults>>}, 1)

Next == Start \/ OrchStep \/ PreStep \/ Save("orch") \/ Save("pre") \/ OrchJoin \/ Operator

Spec == Init /\ [][Next]_vars

\* one file to encode beside one that is AV1 already, in a process that may be
\* killed and started again, and in which one operation may fail
InitCrash ==
    InitWith({[f \in Files |-> IF f = 1 THEN Entry(MaxSize, c) ELSE Av1Entry] :
                  c \in {"mkv", "mp4"}},
             {Config(MaxSize), Config(MaxSize - 1)}, {NoControl}, {<<0, MaxFaults>>}, MaxRuns)

NextCrash == Start \/ OrchStep \/ PreStep \/ Save("orch") \/ Save("pre") \/ OrchJoin \/ Crash

SpecCrash == InitCrash /\ [][NextCrash]_vars

\* the same, with the threads scheduled fairly, a started process running on
\* and a killed process started again
SpecCrashFair ==
    /\ SpecCrash
    /\ WF_vars(OrchStep \/ Save("orch") \/ OrchJoin)
    /\ WF_vars(PreStep \/ Save("pre"))
    /\ WF_vars(Start)

\* the same process, with save in its steps: the .tmp file is opened, written
\* and moved over the state file
InitStore ==
    InitWith({[f \in Files |-> IF f = 1 THEN Entry(1, "mp4") ELSE Av1Entry]},
             {Config(MaxSize)}, {NoControl}, {<<0, MaxFaults>>}, MaxRuns)

SaveStep(t) == SaveOpen(t) \/ SaveDump(t) \/ SaveReplace(t)

NextStore == Start \/ OrchStep \/ PreStep \/ SaveStep("orch") \/ SaveStep("pre") \/ OrchJoin \/ Crash

SpecStore == InitStore /\ [][NextStore]_vars

\* one file to encode beside one that is AV1 already, in a process that may
\* be killed and started again, while the operator edits the skip list and
\* the priority list, or one operation fails
InitPrio ==
    InitWith({[f \in Files |-> IF f = 1 THEN Entry(1, "mp4") ELSE Av1Entry]},
             {Config(MaxSize)}, {NoControl}, {<<MaxOps + 1, 0>>, <<0, MaxFaults>>}, MaxRuns)

ListEdit == \E f \in Files : AddSkip(f) \/ AddPriority(f)

NextPrio ==
    Start \/ OrchStep \/ PreStep \/ Save("orch") \/ Save("pre") \/ OrchJoin \/ Crash \/ ListEdit

SpecPrio == InitPrio /\ [][NextPrio]_vars

\* the same, with the threads scheduled fairly, a started process running on
\* and a killed process started again
SpecPrioFair ==
    /\ SpecPrio
    /\ WF_vars(OrchStep \/ Save("orch") \/ OrchJoin)
    /\ WF_vars(PreStep \/ Save("pre"))
    /\ WF_vars(Start)

\* one file to encode beside one that is AV1 already, in a process that
\* receives signals and is started again after it ended, or in which one
\* operation fails
InitSignal ==
    InitWith({[f \in Files |-> IF f = 1 THEN Entry(1, "mp4") ELSE Av1Entry]},
             {Config(MaxSize)}, {NoControl}, {<<MaxOps + 1, 0>>, <<0, MaxFaults>>}, MaxRuns)

NextSignal ==
    Start \/ OrchStep \/ PreStep \/ Save("orch") \/ Save("pre") \/ OrchJoin \/ HandleSignal

SpecSignal == InitSignal /\ [][NextSignal]_vars

\* the budgets of Config with a staging budget that holds one file of the
\* largest size and no more
TightConfig == [Config(MaxSize) EXCEPT !.max_staging_bytes = MaxSize]

\* one file of the largest size to encode, behind a remux, beside one that is
\* AV1 already, with the tight staging budget, in a process that may be
\* killed and started again, and in which one operation may fail
InitBudget ==
    InitWith({OneFile}, {TightConfig}, {NoControl}, {<<0, MaxFaults>>}, MaxRuns)

SpecBudget == InitBudget /\ [][NextCrash]_vars

\* a second file of another tier than the first: H.264 at 720p
OtherTier ==
    [f \in Files |-> IF f = 1 THEN Entry(MaxSize, "mkv")
                     ELSE [Entry(1, "mkv") EXCEPT !.resolution = "720p"]]

\* one run of two files of two tiers with --tier naming the first one, in
\* which the operator drops an encode-only pause, edits the priority list and
\* removes the pause; or of one file, in which an operation fails
InitPause ==
    \/ InitWith({OtherTier}, {[Config(MaxSize) EXCEPT !.only_tier = 0]},
                {NoControl}, {<<MaxOps + 1, 0>>}, 1)
    \/ InitWith({OneFile}, {Config(MaxSize)}, {NoControl}, {<<0, MaxFaults>>}, 1)

PauseEdit == SetPause("encode_only") \/ ClearPause \/ \E f \in Files : AddPriority(f)

NextPause ==
    Start \/ OrchStep \/ PreStep \/ Save("orch") \/ Save("pre") \/ OrchJoin \/ PauseEdit

SpecPause == InitPause /\ [][NextPause]_vars

\* the same, with the threads scheduled fairly; the operator is free to leave
\* the pause in place for ever
SpecPauseFair ==
    /\ SpecPause
    /\ WF_vars(OrchStep \/ Save("orch") \/ OrchJoin)
    /\ WF_vars(PreStep \/ Save("pre"))

\* the operator writes a path into control/priority.json in any spelling,
\* whether or not the list already names it
AddPriorityPath(p) ==
    /\ pc["orch"] # "off"
    /\ opsLeft > 0
    /\ priority' = Append(priority, p)
    /\ opsLeft' = opsLeft - 1
    /\ UNCHANGED <<inputVars, skip, pause, pauseDir, faultsLeft, storeVars, fsVars, pc, ret, orchVars,
                   preVars, procVars, hist>>

\* one run over the first tier of two files of different tiers, in which the
\* operator appends paths to the priority list; or of one file, in which an
\* operation fails
InitInject == InitPause

NextInject ==
    \/ Start \/ OrchStep \/ PreStep \/ Save("orch") \/ Save("pre") \/ OrchJoin
    \/ \E p \in Spellings : AddPriorityPath(p)

SpecInject == InitInject /\ [][NextInject]_vars

\* every set of pause files an operator can leave behind
PauseDirs ==
    [canonical : {{}} \cup {{c} : c \in PauseContents},
     alias : [{"all", "fetch_only", "encode_only"} -> {{}} \cup {{c} : c \in PauseContents}],
     simple : BOOLEAN]

\* one run of one file, started on any set of pause files; or on none, with
\* an operation that fails
InitPauseFiles ==
    \/ InitWith({OneFile}, {Config(MaxSize)},
                {[NoControl EXCEPT !.pauseDir = d] : d \in PauseDirs}, {<<0, 0>>}, 1)
    \/ InitWith({OneFile}, {Config(MaxSize)}, {NoControl}, {<<0, MaxFaults>>}, 1)

NextRun == Start \/ OrchStep \/ PreStep \/ Save("orch") \/ Save("pre") \/ OrchJoin

SpecPauseFiles == InitPauseFiles /\ [][NextRun]_vars

\* a disk no larger than the largest file, under budgets that never bind
SmallDisk ==
    [Config(MaxSize) EXCEPT !.disk_bytes = MaxSize, !.max_fetch_buffer_bytes = 3 * MaxSize]

\* one run of two files under the usual budgets, under the tight staging
\* budget or on the small disk; or of one file, in which an operation fails
InitGates ==
    \/ InitWith({TwoFiles}, {Config(MaxSize), TightConfig, SmallDisk}, {NoControl},
                {<<0, 0>>}, 1)
    \/ InitWith({OneFile}, {Config(MaxSize)}, {NoControl}, {<<0, MaxFaults>>}, 1)

SpecGates == InitGates /\ [][NextRun]_vars

\* a NAS on which a file <stem>.av1.mkv, not written by the pipeline, lies
\* beside the first source
DestTaken ==
    [f \in Files |-> IF f = 1 THEN [CleanNas EXCEPT !.D = "other"] ELSE CleanNas]

\* one file to encode, behind a remux, beside one that is AV1 already, on a
\* NAS with and without a file at the destination, in a process that may be
\* killed and started again, and in which one operation may fail
InitDest ==
    InitOn({OneFile}, {Config(MaxSize)}, {NoControl}, {<<0, MaxFaults>>}, MaxRuns,
           {[f \in Files |-> CleanNas], DestTaken})

SpecDest == InitDest /\ [][NextCrash]_vars

\* the override records: with and without an absolute cq, and with an offset
\* that raises the quality index, one that takes it below 1, or none
Overrides == [cq : {{}, {20}}, cq_offset : {{}, {-30}, {4}}]

RECURSIVE SeqsUpTo(_, _)
SeqsUpTo(S, n) ==
    IF n = 0 THEN {<<>>}
    ELSE LET shorter == SeqsUpTo(S, n - 1)
         IN shorter \cup {Append(q, x) : q \in {r \in shorter : Len(r) = n - 1}, x \in S}

\* the gentle.json files: an exact-path record of the first file or none, up
\* to MaxPatterns patterns that match the first file or do not, and a default
\* offset or none
GentleFiles ==
    {NoGentle} \cup
    [present : {TRUE},
     paths : {[f \in Files |-> IF f = 1 THEN x ELSE {}] : x \in {{}} \cup {{o} : o \in Overrides}},
     patterns : SeqsUpTo([matches : {{}, {1}}, rec : Overrides], MaxPatterns),
     default_offset : {0, 4}]

\* one file to encode beside one that is AV1 already, under every gentle.json
InitGentle ==
    InitWith({[f \in Files |-> IF f = 1 THEN Entry(1, "mkv") ELSE Av1Entry]},
             {Config(MaxSize)}, {[NoControl EXCEPT !.gentle = g] : g \in GentleFiles},
             {<<0, 0>>}, 1)

\* the orchestrator on its own up to the start of the encoder: the steps of
\* run, process_item, the inline stage_fetch and stage_encode in which
\* nothing fails
NextGentle ==
    \/ Start \/ OrchLoop \/ OrchSkipCheck \/ PiRead \/ PiSd1
    \/ FetchGates("orch") \/ FetchExists("orch") \/ FetchClaim("orch")
    \/ FetchCopy("orch") \/ FetchCopying("orch") \/ FetchFetched("orch")
    \/ Save("orch")
    \/ EncCheck \/ EncSetEncoding \/ EncPopen

SpecGentle == InitGentle /\ [][NextGentle]_vars

\* the gentle.json files that hold an exact-path record of the first file
PathOverrides ==
    {[NoGentle EXCEPT !.present = TRUE, !.paths[1] = {o}] : o \in Overrides}

\* one run: of two files of one resolution, the first of which has an
\* override; or of one file, in which an operation fails
InitOverrides ==
    \/ InitWith({TwoFiles}, {Config(MaxSize)},
                {[NoControl EXCEPT !.gentle = g] : g \in PathOverrides}, {<<0, 0>>}, 1)
    \/ InitWith({OneFile}, {Config(MaxSize)}, {NoControl}, {<<0, MaxFaults>>}, 1)

SpecOverrides == InitOverrides /\ [][NextRun]_vars

\* the report entries of the queue builder's inputs: every codec and
\* resolution class the tiers tell apart, and bitrates on and between the
\* bounds of the tiers
ReportEntries ==
    [size : 1..MaxSize, codec : {"h264", "hevc", "mpeg2", "av1"}, container : {"mkv"},
     resolution : {"1080p", "4K", "720p"}, bitrate : {0, 15000, 20000, 22000, 25000}]

\* the configuration of a caller whose tiers end without the catch-all tier
NoCatchAll ==
    [Config(MaxSize) EXCEPT !.priority_tiers = SubSeq(PriorityTiers, 1, Len(PriorityTiers) - 1)]

\* the queue builder on every report, with and without the catch-all tier, in
\* a process that is killed right after its start and started again
InitQueue ==
    InitWith([Files -> ReportEntries], {Config(MaxSize), NoCatchAll}, {NoControl},
             {<<0, 0>>}, MaxRuns)

NextQueue == Start \/ Crash

SpecQueue == InitQueue /\ [][NextQueue]_vars

\* ------------------------------------------------------------- properties

Running == pc["orch"] # "off"

\* the thread t has claimed FETCHING for its item and its copy has not ended
HoldsClaim(t) ==
    \/ pc[t] \in {"f_copy", "f_copying"}
    \/ pc[t] = "save" /\ ret[t] = "f_copy"

\* C2: at most one thread holds the FETCHING claim of a source path: the
\* prefetch worker and the orchestrator's inline fetch are never both between
\* the claim and the end of the copy of the same path
C2_OneFetchClaim ==
    ~(HoldsClaim("orch") /\ HoldsClaim("pre") /\ TheItem("orch") = TheItem("pre"))

\* the main chain of statuses, an untracked path counting as PENDING
Chain ==
    <<"pending", "fetching", "fetched", "encoding", "encoded", "uploading", "uploaded",
      "verified", "replacing", "replaced">>

Tracked(s) == IF s = "none" THEN "pending" ELSE s

\* the transitions of the state machine of a FileRecord
Permitted(a, b) ==
    \/ \E i \in 1..(Len(Chain) - 1) : Tracked(a) = Chain[i] /\ b = Chain[i + 1]
    \/ b = "error"
    \/ Tracked(a) = "pending" /\ b = "skipped"
    \/ a \in ZombieStatuses /\ b = "pending"

\* C5: every status change a running pipeline applies to a record is a
\* permitted transition: one step forward along the chain, any status to
\* ERROR, PENDING to SKIPPED, or the zombie reset to PENDING
C5_PermittedTransitions ==
    [][\A f \in Files :
          (Running /\ pc'["orch"] # "off" /\ data'.files[f] # data.files[f])
              => Permitted(data.files[f], data'.files[f])]_vars

\* a stage starts its external work on the path f in this step: the fetch
\* copy, the remux or the encoder subprocess, the upload copy, the renames
StartsWork(f) ==
    \/ \E t \in Threads : pc[t] = "f_copy" /\ pc'[t] = "f_copying" /\ TheItem(t) = f
    \/ /\ cur = f
       /\ \/ pc["orch"] = "e_remux" /\ pc'["orch"] = "e_remuxing"
          \/ pc["orch"] = "e_popen" /\ pc'["orch"] = "e_run"
          \/ pc["orch"] = "u_copy" /\ pc'["orch"] = "u_copying"
          \/ pc["orch"] = "r_step1" /\ pc'["orch"] = "r_step2"

\* C7: whenever a stage starts its external work on a path, the state file
\* records the status the store holds in memory for that path
C7_DurableBeforeWork ==
    [][\A f \in Files :
          StartsWork(f) => /\ stateFile.kind = "complete"
                           /\ stateFile.data.files[f] = data.files[f]]_vars

\* C9: a path that was put on the skip list while PENDING or untracked, and
\* stayed on it, has the status SKIPPED in the state file once the run has
\* left its main loop and the process has ended
C9_SkippedAtExit ==
    (hist.finished > 0 /\ ~Running)
        => \A f \in hist.skipPending \cap skip : stateFile.data.files[f] = "skipped"

\* C10: the prefetch worker does not leave its fetch-pause wait to fetch a
\* path that was put on the skip list, while PENDING or untracked, during the
\* pause: no fetch of a PENDING path starts after its skip entry is visible
C10_NoFetchAfterSkip ==
    [][\A f \in hist.skipPaused \cap skip :
          ~(pc["pre"] = "p_pause" /\ pc'["pre"] = "f_gates" /\ pqueue[pidx] = f)]_vars

\* no copy, subprocess or rename has failed so far (where Init allows MaxFaults)
NoFaultYet == faultsLeft = MaxFaults

\* the status of f: the store's while the process runs, the state file's after
StatusOf(f) == IF Running THEN data.files[f] ELSE stateFile.data.files[f]

\* the process was killed and started again with the record of f in REPLACING
ResumedReplacing(f) == hist.crashed /\ hist.runs = 2 /\ hist.atStart[f] = "replacing"

\* C1: a record found in REPLACING after a crash is taken to REPLACED by the
\* re-invoked stage_replace: it never becomes ERROR, the AV1 output is never
\* lost, and when the process has ended it is REPLACED with the AV1 output at
\* the final path
C1_ReplaceIdempotent ==
    \A f \in Files :
        (ResumedReplacing(f) /\ NoFaultYet)
            => /\ StatusOf(f) \in {"replacing", "replaced"}
               /\ "av1" \in {nas[f].D, nas[f][FinalSlot(f)]}
               /\ (~Running /\ hist.finished > 0)
                      => StatusOf(f) = "replaced" /\ nas[f][FinalSlot(f)] = "av1"

\* a process that ran without being killed, and in which nothing failed, has ended
EndedUninterrupted == ~hist.crashed /\ hist.finished > 0 /\ ~Running /\ NoFaultYet

\* a process killed at a stage boundary was started again and has ended, and
\* nothing failed
EndedResumed ==
    hist.crashed /\ hist.boundary /\ hist.finished > 0 /\ ~Running /\ NoFaultYet

\* the statuses an uninterrupted run in which nothing fails can end with:
\* REPLACED, and what the races of the two threads on one path can leave
UninterruptedOutcomes(f) ==
    IF report[f].codec \in {"av1", "unknown"} THEN {"skipped"}
    ELSE {"replaced", "skipped", "error", "fetching", "fetched"}

\* the uninterrupted runs end with no other status than UninterruptedOutcomes
UninterruptedEnds ==
    EndedUninterrupted => \A f \in Files : stateFile.data.files[f] \in UninterruptedOutcomes(f)

\* C3: a run killed right after FETCHED, ENCODED, UPLOADED, VERIFIED or
\* REPLACED was written, and started again, ends for every file with a
\* status that an uninterrupted run on the same inputs ends with
C3_ResumeSameOutcome ==
    EndedResumed => \A f \in Files : stateFile.data.files[f] \in UninterruptedOutcomes(f)

\* the restarted process has just loaded the record of f in a zombie status
\* whose local temporary file is absent
ZombieAtStart(f) ==
    /\ hist.runs = 2
    /\ pc = [orch |-> "o_loop", pre |-> "p_top"]
    /\ processed = 0
    /\ data.files[f] = hist.atStart[f]
    /\ data.files[f] \in ZombieStatuses
    /\ local[f] = "absent"

\* C4: a record found at process start in FETCHING, ENCODING or UPLOADING
\* whose local temporary file is absent is eventually reset to PENDING
C4_ZombiesReset ==
    \A f \in Files : (ZombieAtStart(f) /\ NoFaultYet) ~> (data.files[f] = "pending")

\* C8: a pipeline started on a fresh state, with no pause and no shutdown
\* signal, eventually leaves its main loop and ends, unless it is killed
C8_Terminates == (Running /\ hist.runs = 1) ~> ~Running

\* when the orchestrator selects an item after a path was added to the
\* priority list in the way prioNext remembers, it selects that path (holds
\* where no record is left in FETCHING by a killed process)
PriorityIsNext ==
    [][(pc["orch"] = "o_loop" /\ pc'["orch"] = "o_skipchk" /\ hist.prioNext # 0)
           => cur' = hist.prioNext]_vars

\* C11: a path that is in the report but not in the queue, not AV1 and not in
\* a terminal status, and that was added to the priority list between two
\* items with no pause active, becomes the item the orchestrator selects next
C11_PriorityIsSelected ==
    \A f \in Files :
        (hist.prioNext = f) ~> (hist.prioNext = 0 /\ pc["orch"] = "o_skipchk" /\ cur = f)

\* the orchestrator is at a file boundary: at the top of its main loop
AtFileBoundary == pc["orch"] = "o_loop" /\ ~shutdown

\* an item of the queue is fetched, or further on and not terminal
SomeItemReady == \E i \in 1..Len(queue) : data.files[queue[i]] \in ReadyStatuses

\* C12: while an encode-only pause is active at a file boundary the
\* orchestrator stays there and starts no encode, and the prefetch worker is
\* not stalled: it always has a step to take, and it leaves its fetch-pause
\* wait for the fetch
C12_EncodePause ==
    /\ [][(pause = "encode_only" /\ pause' = "encode_only" /\ AtFileBoundary)
             => pc'["orch"] = "o_loop"]_vars
    /\ []((pause = "encode_only" /\ AtFileBoundary /\ Alive)
             => ENABLED (PreStep \/ Save("pre")))

\* the encode-only pause has been there since the start, the orchestrator has
\* not left its first file boundary, and the prefetch worker has fetched a file
C12_Witness ==
    /\ pause = "encode_only"
    /\ opsLeft = MaxOps
    /\ AtFileBoundary
    /\ processed = 0
    /\ \E f \in Files : data.files[f] = "fetched" /\ local[f] = "full"

\* C13: while a fetch-only pause is active the prefetch worker does not leave
\* its fetch-pause wait for a fetch, and the orchestrator is not stalled: at
\* a file boundary with an item that is fetched or further on, it goes on
C13_FetchPause ==
    /\ [][(pause = "fetch_only" /\ pause' = "fetch_only" /\ pc["pre"] = "p_pause")
             => pc'["pre"] # "f_gates"]_vars
    /\ []((pause = "fetch_only" /\ AtFileBoundary /\ SomeItemReady /\ lock = "none")
             => ENABLED OrchLoop)

\* the first steps of the five stages: stage_fetch, stage_encode,
\* stage_upload, stage_verify and stage_replace
StageEntry == {"f_gates", "e_check", "u_check", "v_check", "r_check"}

\* C14: after a signal has set the shutdown flag the orchestrator starts no
\* further stage, neither for the item it is processing nor for another one
C14_NoStageAfterShutdown ==
    [][(shutdown /\ hist.signals > 0 /\ pc["orch"] # pc'["orch"])
           => pc'["orch"] \notin StageEntry]_vars

\* C15: the process is forced to exit with status 1 only by a signal that
\* follows an earlier signal, and the shutdown flag is never cleared while
\* the process runs
C15_TwoStepSignals ==
    /\ [](hist.forced => hist.signals >= 2)
    /\ [][(shutdown /\ pc'["orch"] # "off") => shutdown']_vars

\* C16: an item for which process_item reported failure, and for which the
\* orchestrator counted an error, is not selected again during that run: the
\* orchestrator moves on to another item
C16_FailedNotReselected ==
    [][(pc["orch"] = "o_loop" /\ pc'["orch"] = "o_skipchk") => cur' \notin hist.failed]_vars

\* C17: between two items and after the process has ended, the counters of
\* completed files, bytes saved and encode seconds of the resolution class
\* blocks add up to the counters of the global stats block
C17_TierStatsSumToGlobal ==
    (pc["orch"] \in {"off", "o_loop"})
        => LET d == IF Running THEN data ELSE stateFile.data IN d.tier = d.stats

\* the bytes of the files under the staging directory that are written out
\* in full: fetched inputs, remux intermediates and encoded outputs
RECURSIVE StagedInFull(_)
StagedInFull(S) ==
    IF S = {} THEN 0
    ELSE LET x == CHOOSE y \in S : TRUE
             whole(c, size) == IF c = "full" THEN size ELSE 0
         IN whole(local[x], report[x].size) + whole(remux[x], report[x].size)
            + whole(encoded[x], EncodedSize(x)) + StagedInFull(S \ {x})

\* C18: the bytes held under the staging directory never exceed
\* max_staging_bytes
C18_StagingWithinBudget == StagedInFull(Files) <= cfg.max_staging_bytes

\* C19: with replace enabled, a record found in VERIFIED at the start of a
\* run is REPLACED when that run has ended, if nothing failed
C19_VerifiedIsReplaced ==
    \A f \in Files :
        (/\ hist.atStart[f] = "verified"
         /\ cfg.replace_original
         /\ hist.finished > 0
         /\ ~Running
         /\ NoFaultYet)
            => stateFile.data.files[f] = "replaced"

\* the list build_priority_queue returned at the last start of the process
BuiltQueue == BuildPriorityQueue([files |-> hist.atStart])

\* C20: the list build_priority_queue returns holds no item whose record is
\* in a terminal status (REPLACED, SKIPPED, ERROR, VERIFIED) when it is built
C20_QueueHasNoTerminal ==
    hist.runs > 0
        => \A i \in 1..Len(BuiltQueue) : hist.atStart[BuiltQueue[i]] \notin TerminalStatuses

\* the process has started and no thread has taken a step
JustStarted == pc = [orch |-> "o_loop", pre |-> "p_top"] /\ cur = 0 /\ processed = 0

\* the sort key of a is not after the sort key of b: (tier, -size)
KeyNotAfter(a, b) ==
    \/ TierIndex(a) < TierIndex(b)
    \/ TierIndex(a) = TierIndex(b) /\ report[a].size >= report[b].size

\* k is the index of the first tier that matches f, or the index past the
\* last tier when none does
IsFirstMatch(f, k) ==
    /\ k \in 0..Len(cfg.priority_tiers)
    /\ k < Len(cfg.priority_tiers) => TierMatches(cfg.priority_tiers[k + 1], f)
    /\ \A j \in 1..k : ~TierMatches(cfg.priority_tiers[j], f)

\* C21: the queue the process starts with is sorted by (tier index ascending,
\* file size descending), the tier index of each item being that of the first
\* tier that matches it or the index past the last tier, and building the
\* queue again from the same report, configuration and state gives the same list
C21_QueueSorted ==
    JustStarted
        => /\ \A i, j \in 1..Len(queue) : i < j => KeyNotAfter(queue[i], queue[j])
           /\ \A i \in 1..Len(queue) : IsFirstMatch(queue[i], TierIndex(queue[i]))
           /\ queue = BuiltQueue

\* the builder has put the second, smaller file of the report in front of the
\* first one, which no tier matches
C21_Witness ==
    /\ JustStarted
    /\ queue = <<2, 1>>
    /\ report[1].size > report[2].size
    /\ cfg = NoCatchAll
    /\ TierIndex(1) = Len(cfg.priority_tiers)
    /\ TierIndex(2) < TierIndex(1)

\* the process was killed after step 1 of the replace of f and before step 2,
\* and started again
ResumedAfterStep1(f) == hist.crashed /\ hist.runs = 2 /\ hist.afterStep1 = f

\* the restarted run has taken the replace of f to its end
ReplaceCompleted(f) ==
    /\ StatusOf(f) = "replaced"
    /\ nas[f][FinalSlot(f)] = "av1"
    /\ nas[f].B = "none"
    /\ nas[f].D = "none"

\* C22: a process killed after step 1 of the replace and before step 2 is
\* restarted on a record in REPLACING with S absent, B present, D present and
\* F absent; unless an operation fails, the record stays REPLACING until it is
\* REPLACED, and the run eventually has renamed D to F, deleted B and set
\* REPLACED, which is how it ends
C22_ResumeAfterStep1 ==
    /\ [](\A f \in Files :
             (ResumedAfterStep1(f) /\ NoFaultYet)
                 => /\ hist.atStart[f] = "replacing"
                    /\ JustStarted
                           => /\ nas[f].S = "none" /\ nas[f].B = "orig"
                              /\ nas[f].D = "av1" /\ nas[f][FinalSlot(f)] = "none"
                    /\ StatusOf(f) \in {"replacing", "replaced"}
                    /\ (~Running /\ hist.finished > 0) => ReplaceCompleted(f))
    /\ \A f \in Files :
           ResumedAfterStep1(f) ~> (~NoFaultYet \/ (~Running /\ ReplaceCompleted(f)))

\* the orchestrator leaves the label `at` in this step, the process going on
Leaves(at) == pc["orch"] = at /\ pc'["orch"] \notin {at, "off"}

\* C23: when process_item works on a record that the restart found in
\* ENCODING and that is still ENCODING, it resets the record to PENDING if the
\* fetched local file is absent, and treats it as FETCHED if the file exists:
\* the stage it enters next is stage_encode
C23_EncodingResumed ==
    [][\A f \in Files :
          (/\ cur = f
           /\ hist.runs = 2
           /\ hist.atStart[f] = "encoding"
           /\ data.files[f] = "encoding"
           /\ ~shutdown)
              => /\ (Leaves("pi_zombie") /\ local[f] = "absent") => pc'["orch"] = "pi_reset"
                 /\ (Leaves("pi_sd1") /\ local[f] # "absent") => pc'["orch"] = "e_check"]_vars

\* an encode-only pause was dropped during the encode of another item than b
\* and is still active, and b, a path of the report that is not AV1, not on
\* the skip list and not fetched yet, was then put on the priority list
PausedWithPriority(b) ==
    /\ pause = "encode_only"
    /\ hist.pausedDuring \notin {0, b}
    /\ b \in hist.prioPaused
    /\ report[b].codec # "av1"
    /\ b \notin skip
    /\ data.files[b] \in {"none", "pending", "fetching"}

\* C24: with an encode-only pause dropped during the encode of A and B put on
\* the priority list, the encode of B does not start while the pause stays
\* active, and B is FETCHED while the pause stays active
C24_FetchedUnderEncodePause ==
    /\ [][\A b \in Files :
             (/\ pause = "encode_only" /\ pause' = "encode_only"
              /\ hist.pausedDuring \notin {0, b}
              /\ cur' = b)
                 => ~(pc["orch"] # "e_check" /\ pc'["orch"] = "e_check")]_vars
    /\ \A b \in Files :
           PausedWithPriority(b) ~> (pause # "encode_only" \/ data.files[b] = "fetched")

\* the steps of the upload copy, of stage_verify and of stage_replace
AfterUploadCheck ==
    {"u_copy", "u_copying", "u_setuploaded", "u_clean", "u_fail", "v_check", "v_stats",
     "r_check", "r_step1", "r_step2", "r_step3", "r_setreplaced", "r_fail"}

\* C25: when stage_upload finds the destination present and overwrite is
\* disabled it sets the record to SKIPPED and removes the local encoded file;
\* from then on the NAS paths of the item are left as they are, and no upload
\* copy, verify or replace is performed for it
C25_DestinationExists ==
    /\ [][(/\ Leaves("u_check")
            /\ encoded[cur] # "absent"
            /\ nas[cur].D # "none"
            /\ ~cfg.overwrite_existing)
               => data'.files[cur] = "skipped" /\ ret'["orch"] = "u_skipclean"]_vars
    /\ [][Leaves("u_skipclean") => encoded'[cur] = "absent"]_vars
    /\ [][\A f \in hist.destSkipped :
             /\ nas'[f] = nas[f]
             /\ (cur' = f) => pc'["orch"] \notin AfterUploadCheck]_vars

\* a file lay at the destination before the run, the item was skipped for
\* it, its local encoded file is gone and the process has ended
C25_Witness ==
    /\ nas = DestTaken
    /\ 1 \in hist.destSkipped
    /\ encoded[1] = "absent"
    /\ ~Running
    /\ hist.finished > 0
    /\ stateFile.data.files[1] = "skipped"

\* rec is the override record of f: the exact-path record if there is one,
\* else the record of the first pattern that matches, else the non-zero
\* default offset
IsOverrideOf(rec, f) ==
    /\ gentle.present
    /\ \/ gentle.paths[f] = {rec}
       \/ /\ gentle.paths[f] = {}
          /\ \E i \in 1..Len(gentle.patterns) :
                /\ f \in gentle.patterns[i].matches
                /\ gentle.patterns[i].rec = rec
                /\ \A j \in 1..(i - 1) : f \notin gentle.patterns[j].matches
       \/ /\ gentle.paths[f] = {}
          /\ \A i \in 1..Len(gentle.patterns) : f \notin gentle.patterns[i].matches
          /\ gentle.default_offset # 0
          /\ rec = [NoOverride EXCEPT !.cq_offset = {gentle.default_offset}]

\* C26: the quality index of the encode of an item with a matching override
\* is the override's cq when it has one, whatever its cq_offset, and
\* otherwise max(1, base cq + cq_offset), the override being the exact-path
\* record, else the first matching pattern's, else the non-zero default offset
C26_GentleOverride ==
    \A f \in Files : \A rec \in Overrides :
        (hist.usedCq[f] # {} /\ IsOverrideOf(rec, f))
            => hist.usedCq[f] =
                   IF rec.cq # {} THEN rec.cq
                   ELSE IF rec.cq_offset # {}
                        THEN {Max(1, BaseCq(f) + ValueOf(rec.cq_offset))}
                   ELSE {BaseCq(f)}

\* the encoder was started with the cq of an exact-path record that also has
\* an offset, a pattern with another record matching the same file
C26_Witness ==
    /\ pc["orch"] = "e_run"
    /\ gentle.paths[1] = {[cq |-> {20}, cq_offset |-> {-30}]}
    /\ Len(gentle.patterns) = 2
    /\ gentle.patterns[2] = [matches |-> {1}, rec |-> [cq |-> {}, cq_offset |-> {4}]]
    /\ hist.usedCq[1] = {20}

\* C27: during a live run the zombie recovery of process_item never resets to
\* PENDING a FETCHING record whose claim the running prefetch worker holds
C27_NoResetOfLiveClaim ==
    [][Leaves("pi_reset") => ~(HoldsClaim("pre") /\ TheItem("pre") = cur)]_vars

\* C28: a fetch claim succeeds only from PENDING or untracked: a running
\* pipeline sets FETCHING only on a record that was PENDING or untracked
C28_ClaimOnlyFromPending ==
    [][\A f \in Files :
          (Running /\ data'.files[f] = "fetching" /\ data.files[f] # "fetching")
              => data.files[f] \in {"none", "pending"}]_vars

\* the final path of f holds the whole AV1 output
HoldsAv1(f) == nas[f][FinalSlot(f)] = "av1"

\* f is inside the rename protocol of stage_replace, or was when the process died
InReplace(f) ==
    \/ cur = f /\ pc["orch"] \in {"r_step1", "r_step2", "r_step3", "r_setreplaced", "r_fail"}
    \/ StatusOf(f) = "replacing"

\* the backup holds the original, or an output that F held before: B is filled
\* only by the rename of S, and S holds an output only as the final path
OriginalAtB(f) == nas[f].B = "orig" \/ (FinalSlot(f) = "S" /\ nas[f].B = "av1")

\* C29: during stage_replace, and at every crash point of it, the AV1 output
\* exists at D or at F and the original exists at S or B until F holds the AV1
\* output; the backup B is deleted only when F holds the AV1 output
C29_ReplaceKeepsContent ==
    /\ [](\A f \in Files :
            InReplace(f) => /\ nas[f].D = "av1" \/ HoldsAv1(f)
                            /\ HoldsAv1(f) \/ nas[f].S = "orig" \/ OriginalAtB(f))
    /\ [][\A f \in Files :
            (nas[f].B # "none" /\ nas'[f].B = "none") => HoldsAv1(f)]_vars

C29_Witness ==
    /\ hist.crashed /\ ~Running
    /\ \E f \in Files :
          /\ StatusOf(f) = "replacing"
          /\ HoldsAv1(f) /\ nas[f].B = "none" /\ nas[f].D = "none"

\* C30: in a run started after a crash that left the record of f UPLOADING,
\* with overwrite disabled, stage_upload never skips f as 'destination exists'
\* (every destination file of these runs was written by the pipeline itself)
C30_NoSkipOnOwnLeftover ==
    [][\A f \in Files :
          (Running /\ hist.crashed /\ hist.atStart[f] = "uploading" /\ ~cfg.overwrite_existing)
              => (f \in hist'.destSkipped => f \in hist.destSkipped)]_vars

\* the orchestrator's scan ends in the selection of an item in this step
Selects == pc["orch"] = "o_loop" /\ pc'["orch"] = "o_skipchk"

\* the scanned queue holds a PENDING or untracked path of the priority list
PendingPriorityQueued ==
    \E i \in 1..Len(queue') :
        queue'[i] \in PrioritySet /\ data.files[queue'[i]] \in {"none", "pending"}

\* C31: whenever the queue holds a PENDING or untracked item that is on the
\* priority list, the item the orchestrator selects next is on the priority
\* list, wherever the other items stand in the queue
C31_PendingPriorityFirst ==
    [][(Selects /\ PendingPriorityQueued) => cur' \in PrioritySet]_vars

\* C32: the orchestrator's queue never holds the same path twice (the items
\* of the queue are the report's paths, one per normalised form)
C32_QueueHasNoDuplicates ==
    \A i, j \in 1..Len(queue) : i # j => queue[i] # queue[j]

\* the prefetch worker begins a pass over its list
PassBegins == pc["pre"] = "p_top" /\ pc'["pre"] = "p_item"

\* C33: every pass the prefetch worker begins walks all the items of the
\* orchestrator's queue, the priority items injected after the thread was
\* started among them
C33_PrefetchVisitsInjected ==
    [][PassBegins => \A i \in 1..Len(queue) : InSeq(queue[i], pqueue)]_vars

\* the bytes of the complete files of the paths S in the fetch subdirectory
RECURSIVE FetchedInFull(_)
FetchedInFull(S) ==
    IF S = {} THEN 0
    ELSE LET x == CHOOSE y \in S : TRUE
             whole(c) == IF c = "full" THEN report[x].size ELSE 0
         IN whole(local[x]) + whole(remux[x]) + FetchedInFull(S \ {x})

\* C34: the bytes held in the fetch subdirectory never exceed
\* max_fetch_buffer_bytes
C34_FetchBufferWithinBudget == FetchedInFull(Files) <= cfg.max_fetch_buffer_bytes

\* both threads are outside every stage: the orchestrator at the top of its
\* loop, the prefetch worker between two fetches
BetweenStages ==
    /\ pc["orch"] = "o_loop"
    /\ pc["pre"] \in {"p_top", "p_item", "p_skip", "p_pause", "p_done"}

\* the path f has a file in the staging directory
Staged(f) == local[f] # "absent" \/ remux[f] # "absent" \/ encoded[f] # "absent"

\* C35: an item in a terminal status (REPLACED, VERIFIED, SKIPPED or ERROR)
\* has no fetched input, remux intermediate or encoded output left in the
\* staging directory once the stage that ended it has returned
C35_TerminalLeavesNothing ==
    BetweenStages =>
        \A f \in Files :
            data.files[f] \in {"replaced", "verified", "skipped", "error"} => ~Staged(f)

\* C36: the global error counter counts stage failures only: when the
\* orchestrator increments stats.errors for the item it has just processed,
\* the record of that item is ERROR
C36_ErrorsCountFailures ==
    [][(pc["orch"] = "o_fail" /\ data'.errors # data.errors) => data.files[cur] = "error"]_vars

\* the positions at which a thread sleeps or waits for an external operation:
\* the pause and budget waits, the sleep between two passes, the fetch copy,
\* the remux and encoder subprocesses, the upload copy, the duration probe
SuspensionPoints ==
    {"o_loop", "o_wait", "p_top", "p_pause", "f_copy", "f_copying", "e_remux",
     "e_remuxing", "e_popen", "e_run", "u_copy", "u_copying", "v_check"}

\* C37: no thread holds the State Store lock at a suspension point
C37_NoLockWhileSuspended ==
    \A t \in Threads : pc[t] \in SuspensionPoints => lock # t

C37_Witness ==
    /\ lock = "orch"
    /\ pc["pre"] \in {"f_copying", "p_pause"}

\* the types implied by the alias pause files that exist
ImpliedTypes == {a \in {"all", "fetch_only", "encode_only"} : pauseDir.alias[a] # {}}

\* C38: when an alias pause file exists (and no PAUSE file), the effective
\* pause type is the type an existing alias implies, whatever the alias file
\* holds and whatever a co-existing pause.json holds
C38_AliasTypeWins ==
    (Running /\ ~pauseDir.simple /\ ImpliedTypes # {}) => pause \in ImpliedTypes

\* the thread t leaves stage_fetch in this step at one of its pre-flight gates
BlockedAtGate(t) ==
    pc[t] = "f_gates" /\ pc'[t] # "f_gates" /\ pc'[t] # "off" /\ GatesBlock(TheItem(t))

\* C39: a fetch blocked by a pre-flight gate returns failure and changes
\* nothing: the records, the stats, the state file and the staged files are
\* as before
C39_BlockedFetchChangesNothing ==
    [][\A t \in Threads :
          BlockedAtGate(t) =>
              /\ pc'[t] = ReturnLabel(t, FALSE)
              /\ data' = data /\ stateFile' = stateFile
              /\ local' = local /\ remux' = remux /\ encoded' = encoded]_vars

\* the inline fetch has returned at the free-space gate, the other two open
C39_Witness ==
    /\ pc["orch"] = "o_wait"
    /\ data.files[cur] \in {"none", "pending"}
    /\ GetFreeSpace < cfg.min_free_space_bytes + report[cur].size
    /\ GetStagingUsage + report[cur].size <= cfg.max_staging_bytes
    /\ FetchUsage + report[cur].size <= cfg.max_fetch_buffer_bytes

C6_StateFileWhole == stateFile.kind \in {"absent", "complete"}

\* the process was killed while one thread was writing the .tmp file and the
\* other one waited to save, and the state file is a complete document
C6_Witness == hist.midSave /\ ~Running /\ stateFile.kind = "complete"

====
